---- MODULE Spec2Model ----
(***************************************************************************)
(* Model of adapter/scripts/codelldb/api.py: the callback registry         *)
(* (CBManager.new_cb / remove_cb), the checkpoint panel controller         *)
(* (CBManager.create_webview / update_webview) and the get_checkpoints     *)
(* command, run by two execution contexts: "cmd" (commands and API calls)  *)
(* and "bridge" (delivery of inbound records to the listeners).            *)
(***************************************************************************)
EXTENDS Integers, Sequences, FiniteSets, TLC

\* ---------------------------------------------------------------- bounds
\* operations started (commands, API calls and inbound records) in one run
MaxOps == 4
\* characters of a watch_page command line
MaxCmdLen == 3

\* ---------------------------------------------------------------- values
\* Python None (self.wv = None); also "attribute not set" for debugger_id
NoPanel == 0

Ctx == {"cmd", "bridge"}
Sessions == {1, 2}
Data == {"d1", "d2"}
Ids == 0 .. (MaxOps - 1)
\* a command line is a string over a blank and a non-blank character
Chars == {" ", "x"}
Commands == UNION {[1 .. n -> Chars] : n \in 0 .. MaxCmdLen}
\* unsigned values an expression can evaluate to
Addrs == {0, 4096}
\* target.EvaluateExpression(args[0]).GetValueAsUnsigned(): the expression
\* evaluates to a value; or it does not and the call raises; or it does not
\* and the returned value carries the error, GetValueAsUnsigned() giving 0
EvalOutcomes == {"value", "raise", "error_value"}

VARIABLES
    callbacks,    \* CBManager._callbacks: idx -> handler (a handler is named by the idx it captured)
    idx,          \* CBManager.idx
    wv,           \* CBManager.wv: NoPanel or the id of the Webview it refers to
    debugger_id,  \* CBManager.debugger_id: 0 while the attribute is not set
    listeners,    \* interface.on_did_receive_message: the subscribed handlers, in order
    next_id,      \* next Webview id
    owner,        \* Webview.debugger_id of each panel allocated
    subscribed,   \* panels whose on_did_dispose has an on_disposed listener
    live,         \* panels created (webviewCreate sent) and not yet disposed
    pending,      \* GetCheckpoints requests fired whose response is not yet delivered
    pc,           \* position of each context
    op,           \* operation each context runs (or ran last)
    arg,          \* `data` of update_webview, per context
    rid,          \* `idx` of remove_cb / of the running handler, per context
    caller,       \* interface.current_debugger().GetID() of the running command
    webview,      \* local `webview` of create_webview, per context
    startWv,      \* wv when the context's operation began
    log,          \* outbound messages of the context's current operation
    err,          \* exception raised by the context's current operation
    msg,          \* inbound record the bridge is delivering
    queue,        \* listeners the record is still to be delivered to
    issued,       \* ids assigned by new_cb, in order
    invoked,      \* how often each handler has been invoked
    nCreate,      \* webviewCreate requests sent
    nPost,        \* data posts sent
    nUpdate,      \* update_webview calls that fired their DebuggerMessage event
    nExplicit,    \* direct create_webview calls
    nOps,         \* operations started
    disposed,     \* panels whose disposal notification has been delivered
    cancelled,    \* ids removed by a direct remove_cb call
    session_of,   \* current debugger of the get_checkpoints call that registered each id
    args,         \* watch_page: `args`
    addr,         \* watch_page: `addr`
    resolved,     \* watch_page: how the evaluation of args[0] ended
    result        \* watch_page: error set on `result`

vars == <<callbacks, idx, wv, debugger_id, listeners, next_id, owner, subscribed, live,
          pending, pc, op, arg, rid, caller, webview, startWv, log, err, msg, queue,
          issued, invoked, nCreate, nPost, nUpdate, nExplicit, nOps,
          disposed, cancelled, session_of, args, addr, resolved, result>>

mgr == <<callbacks, idx, wv, debugger_id>>
counters == <<nCreate, nPost, nUpdate, nExplicit, nOps>>
ghosts == <<disposed, cancelled, session_of>>
watch == <<args, addr, resolved, result>>

\* ---------------------------------------------------------------- helpers
\* dict.pop(k) / del d[k]
DictPopNone(d, k) == d

\* d.pop(k)
DictPop(d, k) == [j \in (DOMAIN d) \ {k} |-> d[j]]

\* d[k] = v
DictSet(d, k, v) == [j \in (DOMAIN d) \cup {k} |-> IF j = k THEN v ELSE d[j]]

InSeq(s, x) == \E i \in 1 .. Len(s) : s[i] = x

FirstIndex(s, x) == CHOOSE i \in 1 .. Len(s) : s[i] = x /\ \A j \in 1 .. (i - 1) : s[j] # x

\* list.remove(x): drops the first occurrence
EventRemove(s, x) ==
    LET k == FirstIndex(s, x)
    IN [i \in 1 .. (Len(s) - 1) |-> IF i < k THEN s[i] ELSE s[i + 1]]

\* list.append(x)
EventAdd(s, x) == Append(s, x)

\* outbound payloads
CreateMsg(p) ==
    [kind |-> "webviewCreate", id |-> p, session |-> debugger_id, title |-> "Checkpoints",
     viewColumn |-> 2, type |-> "", json |-> ""]

RevealMsg(p) ==
    [kind |-> "webviewReveal", id |-> p, session |-> owner[p], title |-> "",
     viewColumn |-> 2, type |-> "", json |-> ""]

PostMsg(p, d) ==
    [kind |-> "post", id |-> p, session |-> owner[p], title |-> "",
     viewColumn |-> 0, type |-> "checkpointData", json |-> d]

\* the event watch_address fires instead: dict(type='DebuggerMessage', address=addr)
WatchMsgDebugger(s, a) ==
    [kind |-> "event", id |-> 0, session |-> s, title |-> "",
     viewColumn |-> 0, type |-> "DebuggerMessage", json |-> "", address |-> a]

\* dict(type='WatchCommand', address=addr) fired for session s
WatchMsg(s, a) ==
    [kind |-> "event", id |-> 0, session |-> s, title |-> "",
     viewColumn |-> 0, type |-> "WatchCommand", json |-> "", address |-> a]

EventMsg(s, t, d) ==
    [kind |-> "event", id |-> 0, session |-> s, title |-> "",
     viewColumn |-> 0, type |-> t, json |-> d]

\* inbound records
Response(i, d) == [kind |-> "response", fields |-> {"checkpoints"}, re |-> i, checkpoints |-> d, id |-> 0]
PanelRecord == [kind |-> "panel", fields |-> {"message", "id", "inner"}, re |-> -1, checkpoints |-> "", id |-> 0]
DisposeRecord(p) == [kind |-> "dispose", fields |-> {"message", "id"}, re |-> -1, checkpoints |-> "", id |-> p]
NoRecord == [kind |-> "none", fields |-> {}, re |-> -1, checkpoints |-> "", id |-> 0]

\* an operation that ends (normally or by an exception) returns to its caller
Return(c) == "ret"

Goto(c, l) == pc' = [pc EXCEPT ![c] = l]

Raise(c, e) ==
    /\ err' = [err EXCEPT ![c] = e]
    /\ Goto(c, Return(c))

Send(c, m) == log' = [log EXCEPT ![c] = Append(@, m)]

\* ---------------------------------------------------------------- initial state
\* CBManager.__init__, and a process with nothing subscribed or sent yet
Init ==
    /\ callbacks = << >>
    /\ idx = 0
    /\ wv = NoPanel
    /\ debugger_id = 0
    /\ listeners = << >>
    /\ next_id = 1
    /\ owner = << >>
    /\ subscribed = {}
    /\ live = {}
    /\ pending = << >>
    /\ pc = [c \in Ctx |-> "idle"]
    /\ op = [c \in Ctx |-> "none"]
    /\ arg = [c \in Ctx |-> ""]
    /\ webview = [c \in Ctx |-> NoPanel]
    /\ startWv = [c \in Ctx |-> NoPanel]
    /\ log = [c \in Ctx |-> << >>]
    /\ err = [c \in Ctx |-> "none"]
    /\ msg = NoRecord
    /\ queue = << >>
    /\ rid = [c \in Ctx |-> -1]
    /\ caller = 0
    /\ issued = << >>
    /\ invoked = [i \in Ids |-> 0]
    /\ nCreate = 0 /\ nPost = 0 /\ nUpdate = 0 /\ nExplicit = 0 /\ nOps = 0
    /\ disposed = {}
    /\ cancelled = {}
    /\ session_of = << >>
    /\ args = << >>
    /\ addr = -1
    /\ resolved = "none"
    /\ result = ""

\* disposed panels: every disposal takes one created panel out of live
nDispose == nCreate - Cardinality(live)

\* a context starts operation o
Begin(c, o, a) ==
    /\ op' = [op EXCEPT ![c] = o]
    /\ arg' = [arg EXCEPT ![c] = a]
    /\ startWv' = [startWv EXCEPT ![c] = wv]
    /\ err' = [err EXCEPT ![c] = "none"]
    /\ log' = [log EXCEPT ![c] = << >>]

\* ---------------------------------------------------------------- callback registry
\* new_cb without its `self.idx += 1`
new_cb_same(i) == i

\* self.idx += 1
new_cb_next(i) == i + 1

\* CBManager.new_cb, called with current debugger s: the handler returned is
\* the closure _debug_message, which captured idx
new_cb(s) ==
    /\ debugger_id' = s
    /\ callbacks' = DictSet(callbacks, idx, idx)
    /\ idx' = new_cb_next(idx)
    /\ issued' = Append(issued, idx)
    /\ rid' = [rid EXCEPT !["cmd"] = idx]

\* get_checkpoints, up to the return of cb_manager.new_cb()
GetCheckpoints(s) ==
    /\ pc["cmd"] = "idle"
    /\ nOps < MaxOps
    /\ nOps' = nOps + 1
    /\ Begin("cmd", "get_checkpoints", "")
    /\ caller' = s
    /\ new_cb(s)
    /\ session_of' = DictSet(session_of, idx, s)
    /\ Goto("cmd", "gc_add")
    /\ UNCHANGED <<disposed, cancelled, watch, wv, listeners, next_id, owner, subscribed, live, pending, webview,
                   msg, queue, invoked, nCreate, nPost, nUpdate, nExplicit>>

\* interface.on_did_receive_message.add(<handler>)
GcAdd ==
    /\ pc["cmd"] = "gc_add"
    /\ listeners' = EventAdd(listeners, rid["cmd"])
    /\ Goto("cmd", "gc_fire")
    /\ UNCHANGED <<ghosts, watch, mgr, next_id, owner, subscribed, live, pending, op, arg, rid, caller,
                   webview, startWv, log, err, msg, queue, issued, invoked, counters>>

\* a request whose handler stays subscribed only until the request is fired
GcFireExpire ==
    /\ pc["cmd"] = "gc_fire"
    /\ Send("cmd", EventMsg(caller, "GetCheckpoints", ""))
    /\ pending' = Append(pending, rid["cmd"])
    /\ listeners' = EventRemove(listeners, rid["cmd"])
    /\ Goto("cmd", Return("cmd"))
    /\ UNCHANGED <<ghosts, watch, mgr, next_id, owner, subscribed, live, op, arg, rid, caller,
                   webview, startWv, err, msg, queue, issued, invoked, counters>>

\* interface.fire_event(debugger_id, dict(type='GetCheckpoints'))
GcFire ==
    /\ pc["cmd"] = "gc_fire"
    /\ Send("cmd", EventMsg(caller, "GetCheckpoints", ""))
    /\ pending' = Append(pending, rid["cmd"])
    /\ Goto("cmd", Return("cmd"))
    /\ UNCHANGED <<ghosts, watch, mgr, listeners, next_id, owner, subscribed, live, op, arg, rid, caller,
                   webview, startWv, err, msg, queue, issued, invoked, counters>>

\* cb_manager.remove_cb(i) called directly
CallRemove(i) ==
    /\ pc["cmd"] = "idle"
    /\ nOps < MaxOps
    /\ nOps' = nOps + 1
    /\ Begin("cmd", "remove_cb", "")
    /\ rid' = [rid EXCEPT !["cmd"] = i]
    /\ Goto("cmd", "r_remove")
    /\ UNCHANGED <<ghosts, watch, mgr, listeners, next_id, owner, subscribed, live, pending, caller, webview,
                   msg, queue, issued, invoked, nCreate, nPost, nUpdate, nExplicit>>

\* remove_cb without the removal from the listeners
RemoveListenerSkip(c) ==
    /\ pc[c] = "r_remove"
    /\ IF rid[c] \notin DOMAIN callbacks
         THEN Raise(c, "KeyError")
         ELSE Goto(c, "r_pop") /\ UNCHANGED err
    /\ UNCHANGED <<ghosts, watch, mgr, listeners, next_id, owner, subscribed, live, pending, op, arg,
                   rid, caller, webview, startWv, log, msg, queue, issued, invoked, counters>>

\* remove_cb: interface.on_did_receive_message.remove(self._callbacks[idx])
RemoveListener(c) ==
    /\ pc[c] = "r_remove"
    /\ IF rid[c] \notin DOMAIN callbacks
         THEN Raise(c, "KeyError") /\ UNCHANGED listeners
         ELSE IF ~InSeq(listeners, callbacks[rid[c]])
                THEN Raise(c, "ValueError") /\ UNCHANGED listeners
                ELSE /\ listeners' = EventRemove(listeners, callbacks[rid[c]])
                     /\ Goto(c, "r_pop")
                     /\ UNCHANGED err
    /\ cancelled' = IF c = "cmd" /\ listeners' # listeners THEN cancelled \cup {rid[c]} ELSE cancelled
    /\ UNCHANGED <<disposed, session_of, watch, mgr, next_id, owner, subscribed, live, pending, op, arg, rid, caller,
                   webview, startWv, log, msg, queue, issued, invoked, counters>>

\* remove_cb: self._callbacks.pop(idx)
RemovePop(c) ==
    /\ pc[c] = "r_pop"
    /\ IF rid[c] \notin DOMAIN callbacks
         THEN Raise(c, "KeyError") /\ UNCHANGED callbacks
         ELSE /\ callbacks' = DictPop(callbacks, rid[c])
              /\ Goto(c, Return(c))
              /\ UNCHANGED err
    /\ UNCHANGED <<ghosts, watch, idx, wv, debugger_id, listeners, next_id, owner, subscribed, live, pending,
                   op, arg, rid, caller, webview, startWv, log, msg, queue, issued,
                   invoked, counters>>

\* ---------------------------------------------------------------- watch_page
\* length of the leading run of non-blank characters
RECURSIVE WordLen(_)
WordLen(s) == IF s = << >> \/ Head(s) = " " THEN 0 ELSE 1 + WordLen(Tail(s))

\* command.strip().split()
RECURSIVE Split(_)
Split(s) ==
    IF s = << >> THEN << >>
    ELSE IF Head(s) = " " THEN Split(Tail(s))
    ELSE <<SubSeq(s, 1, WordLen(s))>> \o Split(SubSeq(s, WordLen(s) + 1, Len(s)))

\* watch_page reads its command line only through Split: one command line
\* for each argument list that the command lines split into
WatchCommands ==
    {CHOOSE c \in Commands : Split(c) = t : t \in {Split(c) : c \in Commands}}

\* a check that lets two or more arguments through
UsageErrorNone(a) == Len(a) = 0

\* if len(args) != 1
UsageError(a) == Len(a) # 1

\* what GetValueAsUnsigned() returns for evaluation outcome o of an
\* expression whose value, when it has one, is a
GetValueAsUnsigned(o, a) == IF o = "value" THEN a ELSE 0

\* watch_page(debugger, command, result, internal_dict) with _watch_page(addr):
\* the command touches nothing but its own locals, `result` and the outbound
\* stream, so it is one step.  o, a: how the evaluation of args[0] ends.
WatchPage(s, command, o, a) ==
    /\ pc["cmd"] = "idle"
    /\ nOps < MaxOps
    /\ nOps' = nOps + 1
    /\ op' = [op EXCEPT !["cmd"] = "watch_page"]
    /\ arg' = [arg EXCEPT !["cmd"] = ""]
    /\ startWv' = [startWv EXCEPT !["cmd"] = wv]
    /\ err' = [err EXCEPT !["cmd"] = "none"]
    /\ caller' = s
    /\ args' = Split(command)
    /\ (o # "value" => a = GetValueAsUnsigned(o, a))
    /\ IF UsageError(args')
         THEN \* result.SetError("Usage: watch_page <address>"); return
              /\ result' = "Usage: watch_page <address>"
              /\ resolved' = "none" /\ addr' = -1
              /\ log' = [log EXCEPT !["cmd"] = << >>]
         ELSE /\ resolved' = o
              /\ IF o = "raise"
                   THEN \* except Exception as e: result.SetError(str(e))
                        /\ result' = "exception"
                        /\ addr' = -1
                        /\ log' = [log EXCEPT !["cmd"] = << >>]
                   ELSE /\ result' = ""
                        /\ addr' = GetValueAsUnsigned(o, a)
                        /\ log' = [log EXCEPT !["cmd"] = <<WatchMsg(s, addr')>>]
    /\ Goto("cmd", Return("cmd"))
    /\ UNCHANGED <<ghosts, mgr, listeners, next_id, owner, subscribed, live, pending,
                   rid, webview, msg, queue, issued, invoked, nCreate, nPost, nUpdate,
                   nExplicit>>

\* ---------------------------------------------------------------- panel controller
\* Webview(debugger_id): a fresh panel id
NewWebview == next_id

\* update_webview creating a panel on every call
NeedsCreateAlways(w) == TRUE

\* update_webview: `if not self.wv`
NeedsCreate(w) == w = NoPanel

\* cb_manager.update_webview(d) called directly
CallUpdate(d) ==
    /\ pc["cmd"] = "idle"
    /\ nOps < MaxOps
    /\ nOps' = nOps + 1
    /\ Begin("cmd", "update", d)
    /\ Goto("cmd", "u_fire")
    /\ UNCHANGED <<ghosts, watch, mgr, listeners, next_id, owner, subscribed, live, pending, rid, caller,
                   webview, msg, queue, issued, invoked, nCreate, nPost, nUpdate,
                   nExplicit>>

\* cb_manager.create_webview() called directly
CallCreate ==
    /\ pc["cmd"] = "idle"
    /\ nOps < MaxOps
    /\ nOps' = nOps + 1
    /\ nExplicit' = nExplicit + 1
    /\ Begin("cmd", "create", "")
    /\ Goto("cmd", "c_new")
    /\ UNCHANGED <<ghosts, watch, mgr, listeners, next_id, owner, subscribed, live, pending, rid, caller,
                   webview, msg, queue, issued, invoked, nCreate, nPost, nUpdate>>

\* update_webview: interface.fire_event(self.debugger_id, dict(type='DebuggerMessage', ...))
UpdateFire(c) ==
    /\ pc[c] = "u_fire"
    /\ IF debugger_id = 0
         THEN Raise(c, "AttributeError") /\ UNCHANGED <<log, nUpdate>>
         ELSE /\ Send(c, EventMsg(debugger_id, "DebuggerMessage", arg[c]))
              /\ nUpdate' = nUpdate + 1
              /\ Goto(c, "u_check")
              /\ UNCHANGED err
    /\ UNCHANGED <<ghosts, watch, mgr, listeners, next_id, owner, subscribed, live, pending, op, arg, rid,
                   caller, webview, startWv, msg, queue, issued, invoked, nCreate,
                   nPost, nExplicit, nOps>>

\* update_webview: if not self.wv: self.create_webview()
UpdateCheck(c) ==
    /\ pc[c] = "u_check"
    /\ Goto(c, IF NeedsCreate(wv) THEN "c_new" ELSE "u_post")
    /\ UNCHANGED <<ghosts, watch, mgr, listeners, next_id, owner, subscribed, live, pending, op, arg, rid,
                   caller, webview, startWv, log, err, msg, queue, issued, invoked, counters>>

\* create_webview: webview = Webview(self.debugger_id); self.wv = webview
CreateNew(c) ==
    /\ pc[c] = "c_new"
    /\ IF debugger_id = 0
         THEN Raise(c, "AttributeError") /\ UNCHANGED <<wv, next_id, owner, webview>>
         ELSE /\ webview' = [webview EXCEPT ![c] = NewWebview]
              /\ owner' = DictSet(owner, NewWebview, debugger_id)
              /\ wv' = NewWebview
              /\ next_id' = next_id + 1
              /\ Goto(c, "c_sub")
              /\ UNCHANGED err
    /\ UNCHANGED <<ghosts, watch, callbacks, idx, debugger_id, listeners, subscribed, live, pending,
                   op, arg, rid, caller, startWv, log, msg, queue, issued, invoked, counters>>


\* create_webview: self.wv.on_did_dispose.add(on_disposed)
CreateSubscribe(c) ==
    /\ pc[c] = "c_sub"
    /\ IF wv = NoPanel
         THEN Raise(c, "AttributeError") /\ UNCHANGED subscribed
         ELSE /\ subscribed' = subscribed \cup {wv}
              /\ Goto(c, "c_send")
              /\ UNCHANGED err
    /\ UNCHANGED <<ghosts, watch, mgr, listeners, next_id, owner, live, pending, op, arg, rid, caller,
                   webview, startWv, log, msg, queue, issued, invoked, counters>>

\* create_webview: interface.send_message(self.debugger_id, dict(message='webviewCreate', id=webview.id, ...))
CreateSend(c) ==
    /\ pc[c] = "c_send"
    /\ Send(c, CreateMsg(webview[c]))
    /\ live' = live \cup {webview[c]}
    /\ nCreate' = nCreate + 1
    /\ Goto(c, "c_reveal")
    /\ UNCHANGED <<ghosts, watch, mgr, listeners, next_id, owner, subscribed, pending, op, arg, rid, caller,
                   webview, startWv, err, msg, queue, issued, invoked, nPost, nUpdate,
                   nExplicit, nOps>>

\* create_webview: self.wv.reveal(view_column=2), then back in the caller
CreateReveal(c) ==
    /\ pc[c] = "c_reveal"
    /\ IF wv = NoPanel
         THEN Raise(c, "AttributeError") /\ UNCHANGED log
         ELSE /\ Send(c, RevealMsg(wv))
              /\ Goto(c, IF op[c] = "create" THEN Return(c) ELSE "u_post")
              /\ UNCHANGED err
    /\ UNCHANGED <<ghosts, watch, mgr, listeners, next_id, owner, subscribed, live, pending, op, arg, rid,
                   caller, webview, startWv, msg, queue, issued, invoked, counters>>

\* update_webview: self.wv.post_message(dict(type='checkpointData', json=data))
UpdatePost(c) ==
    /\ pc[c] = "u_post"
    /\ IF wv = NoPanel
         THEN Raise(c, "AttributeError") /\ UNCHANGED <<log, nPost>>
         ELSE /\ Send(c, PostMsg(wv, arg[c]))
              /\ nPost' = nPost + 1
              /\ Goto(c, IF op[c] = "handler" THEN "r_remove" ELSE Return(c))
              /\ UNCHANGED err
    /\ UNCHANGED <<ghosts, watch, mgr, listeners, next_id, owner, subscribed, live, pending, op, arg, rid,
                   caller, webview, startWv, msg, queue, issued, invoked, nCreate,
                   nUpdate, nExplicit, nOps>>

\* on_disposed of panel p: self.wv = None
on_disposed_keep(p) == wv

\* on_disposed(msg): self.wv = None, run for the panel it is subscribed to
on_disposed(p) == IF p \in subscribed THEN NoPanel ELSE wv

\* ---------------------------------------------------------------- inbound stream
Accept(m) ==
    /\ pc["bridge"] = "idle"
    /\ nOps < MaxOps
    /\ nOps' = nOps + 1
    /\ msg' = m
    /\ queue' = listeners
    /\ Goto("bridge", "b_next")

\* the response to the oldest request still unanswered arrives
ReceiveResponse(d) ==
    /\ pending # << >>
    /\ Accept(Response(Head(pending), d))
    /\ pending' = Tail(pending)
    /\ UNCHANGED <<ghosts, watch, mgr, listeners, next_id, owner, subscribed, live, op, arg, rid, caller,
                   webview, startWv, log, err, issued, invoked, nCreate, nPost,
                   nUpdate, nExplicit>>

\* a record without a `checkpoints` field arrives (a message of a panel)
ReceivePanelMessage ==
    /\ Accept(PanelRecord)
    /\ UNCHANGED <<ghosts, watch, mgr, listeners, next_id, owner, subscribed, live, pending, op, arg, rid,
                   caller, webview, startWv, log, err, issued, invoked, nCreate, nPost,
                   nUpdate, nExplicit>>

\* the disposal notification of live panel p arrives: its on_did_dispose fires
ReceiveDispose(p) ==
    /\ p \in live
    /\ Accept(DisposeRecord(p))
    /\ wv' = on_disposed(p)
    /\ live' = live \ {p}
    /\ subscribed' = subscribed \ {p}
    /\ disposed' = disposed \cup {p}
    /\ UNCHANGED <<cancelled, session_of, watch, callbacks, idx, debugger_id, listeners, next_id, owner, pending, op, arg,
                   rid, caller, webview, startWv, log, err, issued, invoked, nCreate,
                   nPost, nUpdate, nExplicit>>

\* the record goes to the next listener that is still subscribed
Deliver ==
    /\ pc["bridge"] = "b_next"
    /\ IF queue = << >>
         THEN /\ Goto("bridge", "idle")
              /\ msg' = NoRecord
              /\ UNCHANGED <<queue, op, arg, startWv, err, log, rid, invoked>>
         ELSE /\ queue' = Tail(queue)
              /\ IF InSeq(listeners, Head(queue))
                   THEN /\ Begin("bridge", "handler", "")
                        /\ rid' = [rid EXCEPT !["bridge"] = Head(queue)]
                        /\ invoked' = [invoked EXCEPT ![Head(queue)] = @ + 1]
                        /\ Goto("bridge", "h_get")
                   ELSE UNCHANGED <<pc, op, arg, startWv, err, log, rid, invoked>>
              /\ UNCHANGED msg
    /\ UNCHANGED <<ghosts, watch, mgr, listeners, next_id, owner, subscribed, live, pending, caller, webview,
                   issued, counters>>

\* _debug_message: checkpoints = msg['checkpoints'], then the call of update_webview
HandlerGet ==
    /\ pc["bridge"] = "h_get"
    /\ IF "checkpoints" \notin msg.fields
         THEN Raise("bridge", "KeyError") /\ UNCHANGED <<arg, startWv>>
         ELSE /\ arg' = [arg EXCEPT !["bridge"] = msg.checkpoints]
              /\ startWv' = [startWv EXCEPT !["bridge"] = wv]
              /\ Goto("bridge", "u_fire")
              /\ UNCHANGED err
    /\ UNCHANGED <<ghosts, watch, mgr, listeners, next_id, owner, subscribed, live, pending, op, rid, caller,
                   webview, log, msg, queue, issued, invoked, counters>>

\* the operation of context c returns: its frame is dropped and control goes
\* back to the command loop or to the delivery loop
Finish(c) ==
    /\ pc[c] = "ret"
    /\ Goto(c, IF c = "bridge" THEN "b_next" ELSE "idle")
    /\ op' = [op EXCEPT ![c] = "none"]
    /\ arg' = [arg EXCEPT ![c] = ""]
    /\ rid' = [rid EXCEPT ![c] = -1]
    /\ webview' = [webview EXCEPT ![c] = NoPanel]
    /\ startWv' = [startWv EXCEPT ![c] = NoPanel]
    /\ log' = [log EXCEPT ![c] = << >>]
    /\ err' = [err EXCEPT ![c] = "none"]
    /\ caller' = IF c = "cmd" THEN 0 ELSE caller
    /\ args' = IF c = "cmd" THEN << >> ELSE args
    /\ addr' = IF c = "cmd" THEN -1 ELSE addr
    /\ resolved' = IF c = "cmd" THEN "none" ELSE resolved
    /\ result' = IF c = "cmd" THEN "" ELSE result
    /\ UNCHANGED <<ghosts, mgr, listeners, next_id, owner, subscribed, live, pending, msg, queue,
                   issued, invoked, counters>>

\* ---------------------------------------------------------------- specifications
\* steps of the command context
CmdNext ==
    \/ \E s \in Sessions : GetCheckpoints(s)
    \/ GcAdd
    \/ GcFire
    \/ \E i \in 0 .. idx : CallRemove(i)
    \/ \E d \in Data : CallUpdate(d)
    \/ CallCreate
    \/ \E s \in Sessions, command \in WatchCommands, o \in EvalOutcomes, a \in Addrs :
          WatchPage(s, command, o, a)
    \/ RemoveListener("cmd")
    \/ RemovePop("cmd")
    \/ UpdateFire("cmd")
    \/ UpdateCheck("cmd")
    \/ CreateNew("cmd")
    \/ CreateSubscribe("cmd")
    \/ CreateSend("cmd")
    \/ CreateReveal("cmd")
    \/ UpdatePost("cmd")
    \/ Finish("cmd")

\* steps of the context that delivers the inbound stream
BridgeNext ==
    \/ \E d \in Data : ReceiveResponse(d)
    \/ ReceivePanelMessage
    \/ \E p \in live : ReceiveDispose(p)
    \/ Deliver
    \/ HandlerGet
    \/ RemoveListener("bridge")
    \/ RemovePop("bridge")
    \/ UpdateFire("bridge")
    \/ UpdateCheck("bridge")
    \/ CreateNew("bridge")
    \/ CreateSubscribe("bridge")
    \/ CreateSend("bridge")
    \/ CreateReveal("bridge")
    \/ UpdatePost("bridge")
    \/ Finish("bridge")

\* the two contexts interleave statement by statement
Next == CmdNext \/ BridgeNext

Spec == Init /\ [][Next]_vars

\* the other context is between two operations
CmdTurn == pc["bridge"] = "idle"

BridgeTurn == pc["cmd"] = "idle"

\* one operation at a time: a command runs between two deliveries, a delivery
\* between two commands
SeqNext ==
    \/ CmdTurn /\ (\E s \in Sessions : GetCheckpoints(s))
    \/ CmdTurn /\ GcAdd
    \/ CmdTurn /\ GcFire
    \/ CmdTurn /\ (\E i \in 0 .. idx : CallRemove(i))
    \/ CmdTurn /\ (\E d \in Data : CallUpdate(d))
    \/ CmdTurn /\ CallCreate
    \/ CmdTurn /\ (\E s \in Sessions, command \in WatchCommands, o \in EvalOutcomes, a \in Addrs :
                      WatchPage(s, command, o, a))
    \/ CmdTurn /\ RemoveListener("cmd")
    \/ CmdTurn /\ RemovePop("cmd")
    \/ CmdTurn /\ UpdateFire("cmd")
    \/ CmdTurn /\ UpdateCheck("cmd")
    \/ CmdTurn /\ CreateNew("cmd")
    \/ CmdTurn /\ CreateSubscribe("cmd")
    \/ CmdTurn /\ CreateSend("cmd")
    \/ CmdTurn /\ CreateReveal("cmd")
    \/ CmdTurn /\ UpdatePost("cmd")
    \/ CmdTurn /\ Finish("cmd")
    \/ BridgeTurn /\ (\E d \in Data : ReceiveResponse(d))
    \/ BridgeTurn /\ ReceivePanelMessage
    \/ BridgeTurn /\ (\E p \in live : ReceiveDispose(p))
    \/ BridgeTurn /\ Deliver
    \/ BridgeTurn /\ HandlerGet
    \/ BridgeTurn /\ RemoveListener("bridge")
    \/ BridgeTurn /\ RemovePop("bridge")
    \/ BridgeTurn /\ UpdateFire("bridge")
    \/ BridgeTurn /\ UpdateCheck("bridge")
    \/ BridgeTurn /\ CreateNew("bridge")
    \/ BridgeTurn /\ CreateSubscribe("bridge")
    \/ BridgeTurn /\ CreateSend("bridge")
    \/ BridgeTurn /\ CreateReveal("bridge")
    \/ BridgeTurn /\ UpdatePost("bridge")
    \/ BridgeTurn /\ Finish("bridge")

SpecSeq == Init /\ [][SeqNext]_vars

\* ---------------------------------------------------------------- claims
\* the context runs update_webview: called directly, or by a handler that got
\* past msg['checkpoints']
UpdateCalled(c) ==
    \/ op[c] = "update"
    \/ op[c] = "handler" /\ "checkpoints" \in msg.fields

\* the creation requests and data posts of the context's operation, in order
PanelLog(c) == SelectSeq(log[c], LAMBDA m : m.kind \in {"webviewCreate", "post"})

Returned(c) == pc[c] = "ret"

\* C1: a response that is dispatched to the handler of its request invokes no
\* other handler: whenever a handler runs on such a response, it is the handler
\* registered for the request the response answers
C1_OnlyCorrelatedHandler ==
    (op["bridge"] = "handler" /\ msg.kind = "response" /\ invoked[msg.re] >= 1) =>
        msg.re = rid["bridge"]

\* C2: over any sequence of inbound messages a handler is invoked at most once
\* (once for its response, never again)
C2_InvokedOnce == \A i \in Ids : invoked[i] <= 1

\* C3: under any interleaving of update calls and disposal notifications (no
\* explicit create involved) at most one panel is Live
C3_AtMostOneLive == nExplicit = 0 => Cardinality(live) <= 1

\* C4: every data post of update is addressed to a panel that is Live at the
\* moment of the post, never to a missing panel handle
C4_PostToLivePanel ==
    \A c \in Ctx : (nExplicit = 0 /\ pc[c] = "u_post") => (wv # NoPanel /\ wv \in live)

\* C5: an explicit create made while a panel is Live allocates no panel id,
\* sends no webviewCreate and leaves the controller on the existing panel
C5_NoSecondPanel ==
    \A c \in Ctx :
        (op[c] = "create" /\ startWv[c] # NoPanel) =>
            /\ webview[c] = NoPanel
            /\ PanelLog(c) = << >>
            /\ wv = startWv[c]

\* C6: a dispatched handler never raises, whatever record it is given
C6_HandlerNeverRaises == op["bridge"] = "handler" => err["bridge"] = "none"

\* C7: removing a registration by id never raises, also when the id is absent
C7_RemoveNeverRaises == op["cmd"] = "remove_cb" => err["cmd"] = "none"

\* C8: the ids assigned by register are strictly increasing (so pairwise
\* distinct), and an id assigned once is never assigned again: every id
\* assigned so far, removed or not, lies below the next id to assign
C8_IdsStrictlyIncreasing ==
    /\ \A i, j \in 1 .. Len(issued) : i < j => issued[i] < issued[j]
    /\ \A i \in 1 .. Len(issued) : issued[i] < idx
    /\ \A k \in DOMAIN callbacks : \E i \in 1 .. Len(issued) : issued[i] = k

\* two ids have been assigned, the second after the first registration was
\* dispatched or removed
C8_Witness ==
    /\ Len(issued) >= 2
    /\ issued[1] \notin DOMAIN callbacks
    /\ issued[2] \in DOMAIN callbacks
    /\ pc["cmd"] = "gc_add"

\* C9: an update called when no panel exists has, when it returns, sent exactly
\* one creation request (title "Checkpoints", viewColumn 2) and then exactly
\* one post {type: "checkpointData", json: data} to the same new panel id
C9_UpdateWhenAbsent ==
    \A c \in Ctx :
        (Returned(c) /\ UpdateCalled(c) /\ startWv[c] = NoPanel) =>
            /\ Len(PanelLog(c)) = 2
            /\ PanelLog(c)[1].kind = "webviewCreate"
            /\ PanelLog(c)[1].title = "Checkpoints"
            /\ PanelLog(c)[1].viewColumn = 2
            /\ PanelLog(c)[2].kind = "post"
            /\ PanelLog(c)[2].type = "checkpointData"
            /\ PanelLog(c)[2].json = arg[c]
            /\ PanelLog(c)[2].id = PanelLog(c)[1].id

C11_RecreateAfterDisposal ==
    /\ [][(pc["bridge"] = "idle" /\ msg'.kind = "dispose" /\ wv # NoPanel /\ msg'.id = wv)
             => wv' = NoPanel]_vars
    /\ [](\A c \in Ctx :
            (Returned(c) /\ UpdateCalled(c) /\ startWv[c] = NoPanel /\ disposed # {}) =>
                /\ Len(PanelLog(c)) = 2
                /\ PanelLog(c)[1].kind = "webviewCreate"
                /\ PanelLog(c)[1].id \notin disposed
                /\ PanelLog(c)[1].id \in live
                /\ PanelLog(c)[2].kind = "post"
                /\ PanelLog(c)[2].id = PanelLog(c)[1].id
                /\ PanelLog(c)[2].json = arg[c]
                /\ wv = PanelLog(c)[1].id)

\* the first panel was disposed while the controller held it, and the next
\* update has returned after creating the second panel
C11_Witness ==
    /\ Returned("cmd")
    /\ op["cmd"] = "update"
    /\ startWv["cmd"] = NoPanel
    /\ err["cmd"] = "none"
    /\ disposed = {1}
    /\ nCreate = 2
    /\ wv = 2

\* the registry and the panel state
registry == <<callbacks, idx, listeners, issued>>
panel == <<wv, next_id, owner, subscribed, live>>

\* C12: watch_page called with no argument or with two or more sets the usage
\* error on the command result and does nothing else: nothing is fired or
\* sent, and the callback registry and the panel state stay as they were
C12_UsageError ==
    [][(pc["cmd"] = "idle" /\ op'["cmd"] = "watch_page" /\ Len(args') # 1) =>
            /\ result' = "Usage: watch_page <address>"
            /\ log'["cmd"] = << >>
            /\ pc'["cmd"] = "ret"
            /\ UNCHANGED <<registry, panel, debugger_id, pending>>]_vars

\* watch_page has returned from a call with two arguments, made while a
\* registration and a panel existed
C12_Witness ==
    /\ Returned("cmd")
    /\ op["cmd"] = "watch_page"
    /\ Len(args) = 2
    /\ result = "Usage: watch_page <address>"
    /\ log["cmd"] = << >>
    /\ DOMAIN callbacks # {}
    /\ wv # NoPanel

\* C13: when the evaluation of the address expression fails, the command
\* result carries the failure and no WatchCommand event is fired
C13_EvaluationFailure ==
    (op["cmd"] = "watch_page" /\ resolved \in {"raise", "error_value"}) =>
        /\ result # ""
        /\ \A i \in 1 .. Len(log["cmd"]) : log["cmd"][i].type # "WatchCommand"

\* C14: watch_page called with one argument that evaluates to a value fires
\* exactly one event {type: "WatchCommand", address: <the value>} for the
\* current session and returns at once; it allocates no id, registers,
\* subscribes and removes nothing, and leaves the panel state as it was
C14_WatchFireAndForget ==
    [][(pc["cmd"] = "idle" /\ op'["cmd"] = "watch_page" /\ Len(args') = 1
            /\ resolved' = "value") =>
            /\ Len(log'["cmd"]) = 1
            /\ log'["cmd"][1].kind = "event"
            /\ log'["cmd"][1].type = "WatchCommand"
            /\ log'["cmd"][1].address = addr'
            /\ log'["cmd"][1].session = caller'
            /\ addr' \in Addrs
            /\ result' = ""
            /\ pc'["cmd"] = "ret"
            /\ UNCHANGED <<registry, panel, debugger_id, pending>>]_vars

\* watch_page has returned from a call with one argument that evaluated to
\* 4096, made while a registration and a panel existed
C14_Witness ==
    /\ Returned("cmd")
    /\ op["cmd"] = "watch_page"
    /\ Len(args) = 1
    /\ resolved = "value"
    /\ addr = 4096
    /\ Len(log["cmd"]) = 1
    /\ DOMAIN callbacks # {}
    /\ wv # NoPanel

\* the messages of the context's log that update_webview sends with the data
Forwarded(c, t) == SelectSeq(log[c], LAMBDA m : m.type = t)

\* C15: the handler run for a response forwards the response's checkpoints
\* list to update exactly once and has, when it returns, removed its
\* registration from the registry map and from the inbound listeners; and
\* once every request fired has had its response delivered, no registration
\* is left in either
C15_DeliveryBackToIdle ==
    /\ (Returned("bridge") /\ op["bridge"] = "handler" /\ msg.kind = "response") =>
            /\ err["bridge"] = "none"
            /\ arg["bridge"] = msg.checkpoints
            /\ Len(Forwarded("bridge", "DebuggerMessage")) = 1
            /\ Forwarded("bridge", "DebuggerMessage")[1].json = msg.checkpoints
            /\ Len(Forwarded("bridge", "checkpointData")) = 1
            /\ Forwarded("bridge", "checkpointData")[1].json = msg.checkpoints
            /\ rid["bridge"] \notin DOMAIN callbacks
            /\ ~InSeq(listeners, rid["bridge"])
    /\ ((\A c \in Ctx : pc[c] = "idle") /\ pending = << >>) =>
            (DOMAIN callbacks = {} /\ listeners = << >>)

\* the handler of the only request has returned from the delivery of its
\* response, and nothing is registered any more
C15_Witness ==
    /\ Returned("bridge")
    /\ op["bridge"] = "handler"
    /\ msg.kind = "response"
    /\ msg.re = rid["bridge"]
    /\ issued = <<0>>
    /\ cancelled = {}
    /\ err["bridge"] = "none"
    /\ nPost = 1
    /\ DOMAIN callbacks = {}
    /\ listeners = << >>
    /\ pending = << >>

\* get_checkpoints fires its request with the handler stored and subscribed
C16_StoredBeforeFired ==
    [][Len(pending') > Len(pending) =>
            (rid["cmd"] \in DOMAIN callbacks /\ InSeq(listeners, rid["cmd"]))]_vars

\* C16: the handler is stored and subscribed when get_checkpoints fires the
\* request, so whenever the response of a request (not cancelled by a direct
\* remove_cb) arrives, the registration of that request is in the registry
\* map and among the inbound listeners to receive it
C16_RegistrationAwaitsResponse ==
    /\ C16_StoredBeforeFired
    /\ [][(pc["bridge"] = "idle" /\ msg'.kind = "response" /\ msg'.re \notin cancelled) =>
             (msg'.re \in DOMAIN callbacks /\ InSeq(listeners, msg'.re))]_vars

\* the ids of the subscribed handlers
Subscribed(l) == {l[i] : i \in 1 .. Len(l)}

\* the step is a step of remove_cb called directly
ExplicitRemoval == op["cmd"] = "remove_cb" /\ pc'["cmd"] # pc["cmd"]

\* the step is a step of remove_cb run by a handler that was given a record
\* with a checkpoints list
DeliveryRemoval ==
    /\ op["bridge"] = "handler"
    /\ "checkpoints" \in msg.fields
    /\ pc["bridge"] \in {"r_remove", "r_pop"}
    /\ pc'["bridge"] # pc["bridge"]

C18_PanelOfRequestingSession ==
    (op["bridge"] = "handler" /\ msg.kind = "response" /\ msg.re = rid["bridge"]) =>
        \A i \in 1 .. Len(log["bridge"]) :
            log["bridge"][i].kind \in {"event", "webviewCreate"} =>
                log["bridge"][i].session = session_of[rid["bridge"]]

\* C19: whenever no operation is in progress, the handlers stored in the
\* registry map are exactly the handlers subscribed to the inbound stream,
\* each subscribed once
C19_MapMatchesListeners ==
    (\A c \in Ctx : pc[c] = "idle") =>
        /\ DOMAIN callbacks = Subscribed(listeners)
        /\ \A k \in DOMAIN callbacks : callbacks[k] = k
        /\ Len(listeners) = Cardinality(DOMAIN callbacks)

\* two requests were made and the delivery of the response to the first
\* removed the first registration; after as many operations as the bound
\* allows the second is stored and subscribed
C19_Witness ==
    /\ \A c \in Ctx : pc[c] = "idle"
    /\ nOps = MaxOps
    /\ idx = 2
    /\ invoked[0] = 1
    /\ cancelled = {}
    /\ DOMAIN callbacks = {1}
    /\ listeners = <<1>>
====
